---- MODULE Spec2Model ----
(***************************************************************************)
(* Disk-backed mailbox (src/src/mailbox_disk.rs): sequential id            *)
(* allocation, per-mailbox metadata, one envelope file per item, and the   *)
(* single semaphore that serialises send / receive / acknowledge.          *)
(*                                                                         *)
(* Strings that the code builds or parses (item ids, payloads) are         *)
(* sequences of characters / bytes so that format!, parse::<u64>,          *)
(* set_extension and base64 are computed, not assumed.                     *)
(***************************************************************************)
EXTENDS Integers, Sequences, FiniteSets, TLC

(* ------------------------------ bounds --------------------------------- *)
\* no send starts once MaxSends ids have been handed out over all mailboxes
MaxSends == 3

\* the same bound while file-system faults are injected
FaultMaxSends == 2

\* the same bound under the fair scheduler
FairMaxSends == 1

\* concurrent callers sharing one MailboxDisk
Callers == {"c1", "c2"}

\* mailbox ids handed to the engine
MailboxIds == {"a", "b"}

\* the mailbox used while file-system faults are injected
FaultMailbox == "a"

\* the test's TestItem values, as the bytes of their data field ("o", "tw")
Items == {<<111>>, <<116, 119>>}

(* --------------------------- program constants ------------------------- *)
\* Semaphore::new(1)
LockPermitsTwo == 1 + 1
LockPermits == 1

\* MailboxMeta::default
DefaultHighest == 0
DefaultLowest == 1

(* ------------------------------ strings -------------------------------- *)
DigitChars == <<"0", "1", "2", "3", "4", "5", "6", "7", "8", "9">>

IsDigit(c) == \E i \in 1..10 : DigitChars[i] = c

DigitVal(c) == (CHOOSE i \in 1..10 : DigitChars[i] = c) - 1

\* format!("{id}") of a u64
RECURSIVE FormatU64(_)
FormatU64(n) ==
    IF n < 10 THEN <<DigitChars[n + 1]>>
    ELSE Append(FormatU64(n \div 10), DigitChars[(n % 10) + 1])

ParseFail == -1

RECURSIVE DigitsValue(_)
DigitsValue(s) ==
    IF Len(s) = 0 THEN 0
    ELSE 10 * DigitsValue(SubSeq(s, 1, Len(s) - 1)) + DigitVal(s[Len(s)])

\* item_id.parse::<u64>(): an optional '+', then one or more decimal digits
\* (leading zeros allowed); anything else is an error
ParseU64(s) ==
    LET body == IF Len(s) > 0 /\ s[1] = "+" THEN Tail(s) ELSE s
    IN  IF Len(body) > 0 /\ \A i \in 1..Len(body) : IsDigit(body[i])
        THEN DigitsValue(body)
        ELSE ParseFail

(* ------------------------------- paths --------------------------------- *)
BasePath == "base"

\* base_path joined with the mailbox id
mailbox_path(mailbox_id) == <<BasePath, mailbox_id>>

LastDot(s) ==
    IF \E i \in 1..Len(s) : s[i] = "."
    THEN CHOOSE i \in 1..Len(s) : s[i] = "." /\ \A j \in (i + 1)..Len(s) : s[j] # "."
    ELSE 0

\* Path::set_extension replaces what follows the last '.' of the file name
\* (a name whose only '.' is its first character has no extension)
FileStem(name) ==
    IF LastDot(name) > 1 THEN SubSeq(name, 1, LastDot(name) - 1) ELSE name

\* the item file of item_id inside the mailbox folder: <folder, stem>; the
\* configured extension is the same for every item and is left implicit
item_path_flat(mailbox_id, item_id) == <<mailbox_path(FaultMailbox), FileStem(item_id)>>
item_path(mailbox_id, item_id) == <<mailbox_path(mailbox_id), FileStem(item_id)>>

meta_path_shared(mailbox_id) == mailbox_path(FaultMailbox)
meta_path(mailbox_id) == mailbox_path(mailbox_id)

Dirs == {mailbox_path(m) : m \in MailboxIds}

(* ------------------------------- base64 -------------------------------- *)
Pad == 64

\* BASE64_STANDARD.encode: 3 bytes -> 4 sextets, '=' padding (Pad) at the end
RECURSIVE Base64Encode(_)
Base64Encode(b) ==
    IF Len(b) = 0 THEN <<>>
    ELSE IF Len(b) = 1 THEN
        <<b[1] \div 4, (b[1] % 4) * 16, Pad, Pad>>
    ELSE IF Len(b) = 2 THEN
        <<b[1] \div 4, (b[1] % 4) * 16 + (b[2] \div 16), (b[2] % 16) * 4, Pad>>
    ELSE
        <<b[1] \div 4, (b[1] % 4) * 16 + (b[2] \div 16),
          (b[2] % 16) * 4 + (b[3] \div 64), b[3] % 64>>
        \o Base64Encode(SubSeq(b, 4, Len(b)))

DecodeFail == <<-1>>

\* BASE64_STANDARD.decode: length a multiple of 4, padding only at the very
\* end, and no stray bits in the last sextet before the padding
RECURSIVE Base64Decode(_)
Base64Decode(t) ==
    IF Len(t) = 0 THEN <<>>
    ELSE IF Len(t) < 4 THEN DecodeFail
    ELSE
        LET q == SubSeq(t, 1, 4)
            rest == SubSeq(t, 5, Len(t))
        IN  IF q[1] = Pad \/ q[2] = Pad THEN DecodeFail
            ELSE IF q[3] = Pad THEN
                IF q[4] = Pad /\ Len(rest) = 0 /\ q[2] % 16 = 0
                THEN <<q[1] * 4 + (q[2] \div 16)>>
                ELSE DecodeFail
            ELSE IF q[4] = Pad THEN
                IF Len(rest) = 0 /\ q[3] % 4 = 0
                THEN <<q[1] * 4 + (q[2] \div 16), (q[2] % 16) * 16 + (q[3] \div 4)>>
                ELSE DecodeFail
            ELSE
                LET tail == Base64Decode(rest)
                IN  IF tail = DecodeFail THEN DecodeFail
                    ELSE <<q[1] * 4 + (q[2] \div 16),
                           (q[2] % 16) * 16 + (q[3] \div 4),
                           (q[3] % 4) * 64 + q[4]>> \o tail

(* ----------------------------- item codec ------------------------------ *)
Quote == 34

\* TestItem::serialize, reduced to the JSON string of its data field
Serialize(item) == <<Quote>> \o item \o <<Quote>>

CodecFail == <<-2>>

\* TestItem::deserialize: the bytes must be a quoted string
Deserialize(bytes) ==
    IF Len(bytes) >= 2 /\ bytes[1] = Quote /\ bytes[Len(bytes)] = Quote
    THEN SubSeq(bytes, 2, Len(bytes) - 1)
    ELSE CodecFail

(* --------------------------- MailboxMeta ------------------------------- *)
\* impl Default for MailboxMeta
MetaDefault ==
    [kind |-> "meta", highest_used_id |-> DefaultHighest,
     lowest_unread_id |-> DefaultLowest, read_ids |-> {}]

\* written where a file holds no parsable document
Garbage == [kind |-> "garbage"]

\* MailboxMeta::next_id: the counter is bumped first, the new value is the id.
\* (u64 arithmetic; MaxSends keeps the counter far below 2^64.)
next_id_stale(m) ==
    [meta |-> m, id |-> FormatU64(m.highest_used_id + 1)]
next_id(m) ==
    [meta |-> [m EXCEPT !.highest_used_id = @ + 1],
     id |-> FormatU64(m.highest_used_id + 1)]

\* MailboxMeta::any_unread
any_unread_inclusive(m) == m.highest_used_id >= m.lowest_unread_id
any_unread(m) == m.highest_used_id > m.lowest_unread_id

\* MailboxMeta::lowest_unread_id
lowest_unread_id_newest(m) == FormatU64(m.highest_used_id)
lowest_unread_id(m) == FormatU64(m.lowest_unread_id)

\* MailboxMeta::mark_read: only an in-order id moves the pointer; read_ids
\* is never touched
mark_read_always(m, id) == [m EXCEPT !.lowest_unread_id = @ + 1]
mark_read(m, id) ==
    IF id = m.lowest_unread_id
    THEN [m EXCEPT !.lowest_unread_id = @ + 1]
    ELSE m

(* ----------------------------- Envelope -------------------------------- *)
\* Envelope::new followed by add_debug (send always calls both)
envelope_new(id, data) ==
    LET enc == Base64Encode(data)
    IN  [kind |-> "envelope", id |-> id, read |-> FALSE, data |-> enc,
         debug |-> Base64Decode(enc)]

\* Envelope::data
envelope_data(e) == Base64Decode(e.data)

\* Envelope::read
envelope_read(e) == e.read

\* Envelope::mark_read
envelope_mark_read(e) == [e EXCEPT !.read = TRUE]

(* ------------------------------- state --------------------------------- *)
VARIABLES
    permits,    \* lock_semaphore: permits available
    sem,        \* sem[p]: caller p holds the permit guard _sem
    meta,       \* mailbox_meta.json files: folder -> document
    env,        \* item files: <<folder, stem>> -> document
    damaged,    \* item files currently deleted / corrupted from outside
    pc,         \* position of each caller inside its current call
    op,         \* the call each caller is making
    lmeta,      \* the caller's local `meta`
    lenv,       \* the caller's local `envelope` (acknowledge)
    result,     \* what the caller's last call returned
    sent,       \* history: ids returned by successful sends, per mailbox
    sentItems,  \* history: the items those sends were given, in the same order
    acked,      \* history: ids whose acknowledge returned Ok, per mailbox
    lastRecv,   \* history: what receive returned since the last acknowledge
    test        \* the driver of tests::it_sends_and_receives

vars == <<permits, sem, meta, env, damaged, pc, op, lmeta, lenv, result,
          sent, sentItems, acked, lastRecv, test>>

NoFiles == [x \in {} |-> Garbage]

WriteFile(f, path, doc) ==
    [q \in (DOMAIN f) \cup {path} |-> IF q = path THEN doc ELSE f[q]]

RemoveKey(f, path) == [q \in (DOMAIN f) \ {path} |-> f[q]]

NoResult == [kind |-> "none yet", id |-> <<>>, item |-> <<>>]
Res(kind, id, item) == [kind |-> kind, id |-> id, item |-> item]

NoOp == [kind |-> "-", mailbox_id |-> "-", item |-> <<>>, item_id |-> <<>>]

\* a payload that is not base64 (a lone '=')
BadData == <<Pad>>

\* what fs::read + serde_json::from_slice see at an item path
EnvView(path) ==
    IF path \notin DOMAIN env THEN [ok |-> FALSE, e |-> Garbage]
    ELSE IF path \in DOMAIN damaged THEN
        IF damaged[path] = "payload"
        THEN [ok |-> TRUE, e |-> [env[path] EXCEPT !.data = BadData]]
        ELSE [ok |-> FALSE, e |-> Garbage]
    ELSE IF env[path].kind = "garbage" THEN [ok |-> FALSE, e |-> Garbage]
    ELSE [ok |-> TRUE, e |-> env[path]]

\* Envelope::load_from
envelope_load_from(path) == EnvView(path)

TestOff == [phase |-> "off", n |-> 0, items |-> <<>>, count |-> 0, got |-> <<>>]

Init ==
    /\ permits = LockPermits
    /\ sem = [p \in Callers |-> FALSE]
    /\ meta = NoFiles
    /\ env = NoFiles
    /\ damaged = NoFiles
    /\ pc = [p \in Callers |-> "idle"]
    /\ op = [p \in Callers |-> NoOp]
    /\ lmeta = [p \in Callers |-> MetaDefault]
    /\ lenv = [p \in Callers |-> Garbage]
    /\ result = [p \in Callers |-> NoResult]
    /\ sent = [d \in Dirs |-> <<>>]
    /\ sentItems = [d \in Dirs |-> <<>>]
    /\ acked = [d \in Dirs |-> {}]
    /\ lastRecv = [d \in Dirs |-> NoResult]
    /\ test = TestOff

(* ----------------------------- the calls ------------------------------- *)
\* item ids given to acknowledge: the ids send can hand out, "01" (parses
\* to 1, names no file) and "1.x" (set_extension maps it onto item 1's file,
\* parse::<u64> rejects it)
AckArgs ==
    {FormatU64(k) : k \in 1..MaxSends} \cup {<<"0", "1">>, <<"1", ".", "x">>}

SendOp(m, item) == [kind |-> "send", mailbox_id |-> m, item |-> item, item_id |-> <<>>]
ReceiveOp(m) == [kind |-> "receive", mailbox_id |-> m, item |-> <<>>, item_id |-> <<>>]
AcknowledgeOp(m, id) ==
    [kind |-> "acknowledge", mailbox_id |-> m, item |-> <<>>, item_id |-> id]

\* sends that hold the gate and have not yet returned
PendingSends ==
    Cardinality({q \in Callers :
        pc[q] \notin {"idle", "acquire"} /\ op[q].kind = "send"})

UsedIds(d) ==
    IF d \in DOMAIN meta /\ meta[d].kind = "meta" THEN meta[d].highest_used_id ELSE 0

RECURSIVE SumUsed(_)
SumUsed(ds) ==
    IF ds = {} THEN 0
    ELSE LET d == CHOOSE x \in ds : TRUE IN UsedIds(d) + SumUsed(ds \ {d})

\* model bound: no send starts once MaxSends ids are used or being used
SendAllowed == SumUsed(Dirs) + PendingSends < MaxSends

\* the calls a client may make
ClientOps ==
    {SendOp(m, item) : m \in MailboxIds, item \in Items}
    \cup {ReceiveOp(m) : m \in MailboxIds}
    \cup {AcknowledgeOp(m, id) : m \in MailboxIds, id \in AckArgs}

\* a caller enters send, receive or acknowledge and waits for the permit
Call(p) ==
    /\ test.phase = "off"
    /\ pc[p] = "idle"
    /\ pc' = [pc EXCEPT ![p] = "acquire"]
    /\ UNCHANGED <<permits, sem, meta, env, damaged, op, lmeta, lenv, result,
                   sent, sentItems, acked, lastRecv, test>>

\* let _sem = self.lock_semaphore.acquire().await? -- the call's arguments
\* are first looked at after this line, so they are drawn here
AcquireFor(p, o) ==
    /\ pc[p] = "acquire"
    /\ permits > 0
    /\ o.kind = "send" => SendAllowed
    /\ permits' = permits - 1
    /\ sem' = [sem EXCEPT ![p] = TRUE]
    /\ op' = [op EXCEPT ![p] = o]
    /\ pc' = [pc EXCEPT ![p] = "ensure_meta"]
    /\ UNCHANGED <<meta, env, damaged, lmeta, lenv, result, sent, sentItems, acked, lastRecv>>

Acquire(p) ==
    /\ test.phase = "off"
    /\ \E o \in ClientOps : AcquireFor(p, o)
    /\ UNCHANGED test

AfterMeta(kind) ==
    CASE kind = "send" -> "send_envelope"
      [] kind = "receive" -> "receive_item"
      [] OTHER -> "ack_load"

\* ensure_meta: create the folder, then load mailbox_meta.json or create it
\* with the default values; an unreadable document ends the call
ensure_meta(p) ==
    /\ pc[p] = "ensure_meta"
    /\ LET d == meta_path(op[p].mailbox_id)
       IN  IF d \in DOMAIN meta
           THEN IF meta[d].kind = "meta"
                THEN /\ lmeta' = [lmeta EXCEPT ![p] = meta[d]]
                     /\ pc' = [pc EXCEPT ![p] = AfterMeta(op[p].kind)]
                     /\ UNCHANGED <<meta, result>>
                ELSE /\ result' = [result EXCEPT ![p] = Res("MetaIoError", <<>>, <<>>)]
                     /\ pc' = [pc EXCEPT ![p] = "ret"]
                     /\ UNCHANGED <<meta, lmeta>>
           ELSE /\ meta' = WriteFile(meta, d, MetaDefault)
                /\ lmeta' = [lmeta EXCEPT ![p] = MetaDefault]
                /\ pc' = [pc EXCEPT ![p] = AfterMeta(op[p].kind)]
                /\ UNCHANGED result
    /\ UNCHANGED <<permits, sem, env, damaged, op, lenv, sent, sentItems, acked, lastRecv, test>>

\* send, lines 109-116: next_id, serialize, Envelope::new, add_debug, e.save
send_envelope(p) ==
    /\ pc[p] = "send_envelope"
    /\ LET n == next_id(lmeta[p])
           path == item_path(op[p].mailbox_id, n.id)
       IN  /\ lmeta' = [lmeta EXCEPT ![p] = n.meta]
           /\ lenv' = [lenv EXCEPT ![p] = envelope_new(n.id, Serialize(op[p].item))]
           /\ env' = WriteFile(env, path, lenv'[p])
           /\ damaged' = RemoveKey(damaged, path)
           /\ result' = [result EXCEPT ![p] = Res("Pending", n.id, <<>>)]
    /\ pc' = [pc EXCEPT ![p] = "send_meta"]
    /\ UNCHANGED <<permits, sem, meta, op, sent, sentItems, acked, lastRecv, test>>

\* send, lines 119-121: meta.save, Ok(item_id)
send_meta(p) ==
    /\ pc[p] = "send_meta"
    /\ meta' = WriteFile(meta, meta_path(op[p].mailbox_id), lmeta[p])
    /\ result' = [result EXCEPT ![p] = Res("Sent", result[p].id, <<>>)]
    /\ pc' = [pc EXCEPT ![p] = "ret"]
    /\ UNCHANGED <<permits, sem, env, damaged, op, lmeta, lenv, sent, sentItems, acked, lastRecv, test>>

\* receive, lines 131-146, on the metadata m of mailbox_id
receive_result_skipping(m, mailbox_id) ==
    IF ~any_unread(m) THEN Res("None", <<>>, <<>>)
    ELSE
        LET ok == {k \in m.lowest_unread_id..m.highest_used_id :
                      envelope_load_from(item_path(mailbox_id, FormatU64(k))).ok}
        IN  IF ok = {} THEN Res("None", <<>>, <<>>)
            ELSE LET k == CHOOSE x \in ok : \A y \in ok : x <= y
                     e == envelope_load_from(item_path(mailbox_id, FormatU64(k))).e
                 IN  Res("Some", FormatU64(k), Deserialize(envelope_data(e)))
receive_result(m, mailbox_id) ==
    IF ~any_unread(m) THEN Res("None", <<>>, <<>>)
    ELSE
        LET item_id == lowest_unread_id(m)
            ld == envelope_load_from(item_path(mailbox_id, item_id))
        IN  IF ~ld.ok THEN Res("BrokenMailbox", item_id, <<>>)
            ELSE IF envelope_data(ld.e) = DecodeFail
                 THEN Res("EncodingError", item_id, <<>>)
            ELSE IF Deserialize(envelope_data(ld.e)) = CodecFail
                 THEN Res("CodecError", item_id, <<>>)
            ELSE Res("Some", item_id, Deserialize(envelope_data(ld.e)))

receive_item(p) ==
    /\ pc[p] = "receive_item"
    /\ result' = [result EXCEPT ![p] = receive_result(lmeta[p], op[p].mailbox_id)]
    /\ pc' = [pc EXCEPT ![p] = "ret"]
    /\ UNCHANGED <<permits, sem, meta, env, damaged, op, lmeta, lenv, sent, sentItems, acked, lastRecv, test>>

\* acknowledge as it would be if the envelope were saved before the id is
\* parsed
ack_load_save_first(p) ==
    /\ pc[p] = "ack_load"
    /\ LET path == item_path(op[p].mailbox_id, op[p].item_id)
           ld == envelope_load_from(path)
           id == ParseU64(op[p].item_id)
       IN  IF ~ld.ok
           THEN /\ result' = [result EXCEPT ![p] = Res("BrokenMailbox", op[p].item_id, <<>>)]
                /\ pc' = [pc EXCEPT ![p] = "ret"]
                /\ UNCHANGED <<lmeta, lenv, env>>
           ELSE IF id = ParseFail
           THEN /\ result' = [result EXCEPT ![p] = Res("IdParseError", op[p].item_id, <<>>)]
                /\ lenv' = [lenv EXCEPT ![p] = envelope_mark_read(ld.e)]
                /\ env' = WriteFile(env, path, lenv'[p])
                /\ pc' = [pc EXCEPT ![p] = "ret"]
                /\ UNCHANGED lmeta
           ELSE /\ lenv' = [lenv EXCEPT ![p] = envelope_mark_read(ld.e)]
                /\ lmeta' = [lmeta EXCEPT ![p] = mark_read(lmeta[p], id)]
                /\ pc' = [pc EXCEPT ![p] = "ack_envelope"]
                /\ UNCHANGED <<result, env>>
    /\ UNCHANGED <<permits, sem, meta, damaged, op, sent, sentItems, acked, lastRecv, test>>

\* acknowledge, lines 157-176: load the envelope, mark it read, parse the
\* id, meta.mark_read -- all on the caller's local copies
ack_load(p) ==
    /\ pc[p] = "ack_load"
    /\ LET ld == envelope_load_from(item_path(op[p].mailbox_id, op[p].item_id))
           id == ParseU64(op[p].item_id)
       IN  IF ~ld.ok
           THEN /\ result' = [result EXCEPT ![p] = Res("BrokenMailbox", op[p].item_id, <<>>)]
                /\ pc' = [pc EXCEPT ![p] = "ret"]
                /\ UNCHANGED <<lmeta, lenv>>
           ELSE IF id = ParseFail
           THEN /\ result' = [result EXCEPT ![p] = Res("IdParseError", op[p].item_id, <<>>)]
                /\ lenv' = [lenv EXCEPT ![p] = envelope_mark_read(ld.e)]
                /\ pc' = [pc EXCEPT ![p] = "ret"]
                /\ UNCHANGED lmeta
           ELSE /\ lenv' = [lenv EXCEPT ![p] = envelope_mark_read(ld.e)]
                /\ lmeta' = [lmeta EXCEPT ![p] = mark_read(lmeta[p], id)]
                /\ pc' = [pc EXCEPT ![p] = "ack_envelope"]
                /\ UNCHANGED result
    /\ UNCHANGED <<permits, sem, meta, env, damaged, op, sent, sentItems, acked, lastRecv, test>>

\* acknowledge, line 178: envelope.save
ack_envelope(p) ==
    /\ pc[p] = "ack_envelope"
    /\ LET path == item_path(op[p].mailbox_id, op[p].item_id)
       IN  /\ env' = WriteFile(env, path, lenv[p])
           /\ damaged' = RemoveKey(damaged, path)
    /\ pc' = [pc EXCEPT ![p] = "ack_meta"]
    /\ UNCHANGED <<permits, sem, meta, op, lmeta, lenv, result, sent, sentItems, acked, lastRecv, test>>

\* acknowledge, lines 181-183: meta.save, Ok(())
ack_meta(p) ==
    /\ pc[p] = "ack_meta"
    /\ meta' = WriteFile(meta, meta_path(op[p].mailbox_id), lmeta[p])
    /\ result' = [result EXCEPT ![p] = Res("Ok", op[p].item_id, <<>>)]
    /\ pc' = [pc EXCEPT ![p] = "ret"]
    /\ UNCHANGED <<permits, sem, env, damaged, op, lmeta, lenv, sent, sentItems, acked, lastRecv, test>>

\* drop of the SemaphorePermit held in _sem: one permit goes back
release_forgotten(n) == n
release(n) == n + 1

\* the call returns: _sem is dropped and the permit goes back; the locals
\* of the call are gone
ReturnEffects(p) ==
    /\ pc[p] = "ret"
    /\ permits' = release(permits)
    /\ sem' = [sem EXCEPT ![p] = FALSE]
    /\ pc' = [pc EXCEPT ![p] = "idle"]
    /\ op' = [op EXCEPT ![p] = NoOp]
    /\ lmeta' = [lmeta EXCEPT ![p] = MetaDefault]
    /\ lenv' = [lenv EXCEPT ![p] = Garbage]
    /\ result' = [result EXCEPT ![p] = NoResult]
    /\ LET d == mailbox_path(op[p].mailbox_id)
       IN  /\ sent' = IF result[p].kind = "Sent"
                      THEN [sent EXCEPT ![d] = Append(@, result[p].id)]
                      ELSE sent
           /\ sentItems' = IF result[p].kind = "Sent"
                           THEN [sentItems EXCEPT ![d] = Append(@, op[p].item)]
                           ELSE sentItems
           /\ acked' = IF op[p].kind = "acknowledge" /\ result[p].kind = "Ok"
                       THEN [acked EXCEPT ![d] = @ \cup {ParseU64(op[p].item_id)}]
                       ELSE acked
           /\ lastRecv' = IF op[p].kind = "acknowledge"
                          THEN [lastRecv EXCEPT ![d] = NoResult]
                          ELSE IF result[p].kind = "Some"
                          THEN [lastRecv EXCEPT ![d] = result[p]]
                          ELSE lastRecv
    /\ UNCHANGED <<meta, env, damaged>>

\* a client that does nothing with what the call returned
Return(p) ==
    /\ test.phase = "off"
    /\ ReturnEffects(p)
    /\ UNCHANGED test

Step(p) ==
    \/ ensure_meta(p)
    \/ send_envelope(p)
    \/ send_meta(p)
    \/ receive_item(p)
    \/ ack_load(p)
    \/ ack_envelope(p)
    \/ ack_meta(p)

Next == \E p \in Callers : Call(p) \/ Acquire(p) \/ Step(p) \/ Return(p)

Spec == Init /\ [][Next]_vars

(* -------------------- faults of the file system ------------------------ *)
\* an item file is deleted, overwritten with something that is no JSON
\* document, or has its data field replaced by text that is not base64;
\* one file at a time
Damage ==
    /\ damaged = NoFiles
    /\ \E path \in DOMAIN env, how \in {"deleted", "garbage", "payload"} :
         /\ env[path].kind = "envelope"
         /\ damaged' = WriteFile(damaged, path, how)
    /\ UNCHANGED <<permits, sem, meta, env, pc, op, lmeta, lenv, result,
                   sent, sentItems, acked, lastRecv, test>>

\* the damaged file is put back as it was
Restore ==
    /\ damaged # NoFiles
    /\ damaged' = NoFiles
    /\ UNCHANGED <<permits, sem, meta, env, pc, op, lmeta, lenv, result,
                   sent, sentItems, acked, lastRecv, test>>

\* what a failed fs::write can leave behind: the old file, or a truncated one
FailedWrite(f, path) == {f, WriteFile(f, path, Garbage)}

Fails(p, kind) ==
    /\ result' = [result EXCEPT ![p] = Res(kind, <<>>, <<>>)]
    /\ pc' = [pc EXCEPT ![p] = "ret"]

\* send, line 110: item.serialize()? fails (an ITEM whose codec can fail);
\* the id was taken from the local metadata only
send_serialize_fails(p) ==
    /\ pc[p] = "send_envelope"
    /\ lmeta' = [lmeta EXCEPT ![p] = next_id(lmeta[p]).meta]
    /\ Fails(p, "CodecError")
    /\ UNCHANGED <<permits, sem, meta, env, damaged, op, lenv, sent, sentItems, acked, lastRecv, test>>

\* send, line 116: e.save(&p).await? fails
send_envelope_fails(p) ==
    /\ pc[p] = "send_envelope"
    /\ LET n == next_id(lmeta[p])
           path == item_path(op[p].mailbox_id, n.id)
       IN  /\ lmeta' = [lmeta EXCEPT ![p] = n.meta]
           /\ env' \in FailedWrite(env, path)
           /\ damaged' = IF env' = env THEN damaged ELSE RemoveKey(damaged, path)
    /\ Fails(p, "EnvelopeIoError")
    /\ UNCHANGED <<permits, sem, meta, op, lenv, sent, sentItems, acked, lastRecv, test>>

\* send, line 119: meta.save(..).await? fails after the envelope was written
send_meta_fails(p) ==
    /\ pc[p] = "send_meta"
    /\ meta' \in FailedWrite(meta, meta_path(op[p].mailbox_id))
    /\ Fails(p, "MetaIoError")
    /\ UNCHANGED <<permits, sem, env, damaged, op, lmeta, lenv, sent, sentItems, acked, lastRecv, test>>

\* acknowledge, line 178: envelope.save(&p).await? fails
ack_envelope_fails(p) ==
    /\ pc[p] = "ack_envelope"
    /\ LET path == item_path(op[p].mailbox_id, op[p].item_id)
       IN  /\ env' \in FailedWrite(env, path)
           /\ damaged' = IF env' = env THEN damaged ELSE RemoveKey(damaged, path)
    /\ Fails(p, "EnvelopeIoError")
    /\ UNCHANGED <<permits, sem, meta, op, lmeta, lenv, sent, sentItems, acked, lastRecv, test>>

\* acknowledge, line 181: meta.save(..).await? fails after the envelope was
\* written
ack_meta_fails(p) ==
    /\ pc[p] = "ack_meta"
    /\ meta' \in FailedWrite(meta, meta_path(op[p].mailbox_id))
    /\ Fails(p, "MetaIoError")
    /\ UNCHANGED <<permits, sem, env, damaged, op, lmeta, lenv, sent, sentItems, acked, lastRecv, test>>

FaultStep(p) ==
    \/ send_serialize_fails(p)
    \/ send_envelope_fails(p)
    \/ send_meta_fails(p)
    \/ ack_envelope_fails(p)
    \/ ack_meta_fails(p)

\* the calls made while faults are injected: all on one mailbox, and at
\* most FaultMaxSends sends
FaultOps == {o \in ClientOps : o.mailbox_id = FaultMailbox}

AcquireUnderFaults(p) ==
    /\ test.phase = "off"
    /\ \E o \in FaultOps :
         /\ o.kind = "send" => SumUsed(Dirs) + PendingSends < FaultMaxSends
         /\ o.kind = "acknowledge" => ParseU64(o.item_id) <= FaultMaxSends
         /\ AcquireFor(p, o)
    /\ UNCHANGED test

NextDamage ==
    \/ \E p \in Callers : Call(p) \/ AcquireUnderFaults(p) \/ Step(p) \/ Return(p)
    \/ Damage
    \/ Restore

\* the engine while item files are lost or corrupted from outside
SpecDamage == Init /\ [][NextDamage]_vars

NextFault ==
    \E p \in Callers :
        Call(p) \/ AcquireUnderFaults(p) \/ Step(p) \/ Return(p) \/ FaultStep(p)

\* the engine on a file system whose writes can fail
SpecFault == Init /\ [][NextFault]_vars

\* the calls made under the fair scheduler: as under faults, with at most
\* FairMaxSends successful sends
AcquireFair(p) ==
    /\ test.phase = "off"
    /\ \E o \in FaultOps :
         /\ o.kind = "send" => SumUsed(Dirs) + PendingSends < FairMaxSends
         /\ o.kind = "acknowledge" => ParseU64(o.item_id) <= FairMaxSends
         /\ AcquireFor(p, o)
    /\ UNCHANGED test

NextFair ==
    \E p \in Callers :
        Call(p) \/ AcquireFair(p) \/ Step(p) \/ Return(p) \/ FaultStep(p)

\* a fair scheduler: a call that holds the permit runs on to its return
\* (its steps are synchronous file operations), and tokio's Semaphore hands
\* permits out in the order they were asked for, so that a caller who keeps
\* waiting is not passed over for ever
FairFault ==
    \A p \in Callers :
        /\ WF_vars(Step(p) \/ FaultStep(p))
        /\ WF_vars(Return(p))
        /\ SF_vars(AcquireFair(p))

\* the engine on a file system whose writes can fail, fairly scheduled
SpecFaultFair == Init /\ [][NextFair]_vars /\ FairFault

(* ----------------- tests::it_sends_and_receives ------------------------ *)
\* the mailbox the test uses (its "42")
TestMailbox == "a"
TestCaller == "c1"

\* if count > 10 { break; }
TestCountLimit == 10

InitTest ==
    /\ permits = LockPermits
    /\ sem = [p \in Callers |-> FALSE]
    /\ meta = NoFiles
    /\ env = NoFiles
    /\ damaged = NoFiles
    /\ pc = [p \in Callers |-> "idle"]
    /\ op = [p \in Callers |-> NoOp]
    /\ lmeta = [p \in Callers |-> MetaDefault]
    /\ lenv = [p \in Callers |-> Garbage]
    /\ result = [p \in Callers |-> NoResult]
    /\ sent = [d \in Dirs |-> <<>>]
    /\ sentItems = [d \in Dirs |-> <<>>]
    /\ acked = [d \in Dirs |-> {}]
    /\ lastRecv = [d \in Dirs |-> NoResult]
    /\ \E n \in 1..MaxSends :
         test = [phase |-> "send", n |-> n, items |-> <<>>, count |-> 0, got |-> <<>>]

\* the test makes its next call
TestCall ==
    /\ test.phase \in {"send", "receive", "acknowledge"}
    /\ pc[TestCaller] = "idle"
    /\ pc' = [pc EXCEPT ![TestCaller] = "acquire"]
    /\ UNCHANGED <<permits, sem, meta, env, damaged, op, lmeta, lenv, result,
                   sent, sentItems, acked, lastRecv, test>>

\* the arguments of that call: the n sends, then receive, then acknowledge
\* of the id receive returned
TestAcquire ==
    \/ /\ test.phase = "send"
       /\ \E item \in Items :
            /\ AcquireFor(TestCaller, SendOp(TestMailbox, item))
            /\ test' = [test EXCEPT !.items = Append(@, item)]
    \/ /\ test.phase = "receive"
       /\ AcquireFor(TestCaller, ReceiveOp(TestMailbox))
       /\ UNCHANGED test
    \/ /\ test.phase = "acknowledge"
       /\ AcquireFor(TestCaller, AcknowledgeOp(TestMailbox, test.got[Len(test.got)].id))
       /\ UNCHANGED test

\* what the test does with the value returned: .expect / ? on errors, the
\* while-let loop on receive, count += 1, the break at count > 10
TestAfter(t, r) ==
    CASE t.phase = "send" ->
            IF r.kind # "Sent" THEN [t EXCEPT !.phase = "failed"]
            ELSE IF Len(t.items) < t.n THEN t
            ELSE [t EXCEPT !.phase = "receive"]
      [] t.phase = "receive" ->
            IF r.kind = "Some"
            THEN [t EXCEPT !.phase = "acknowledge", !.count = @ + 1,
                           !.got = Append(@, [id |-> r.id, item |-> r.item])]
            ELSE IF r.kind = "None" THEN [t EXCEPT !.phase = "done"]
            ELSE [t EXCEPT !.phase = "failed"]
      [] OTHER ->
            IF r.kind # "Ok" THEN [t EXCEPT !.phase = "failed"]
            ELSE IF t.count > TestCountLimit THEN [t EXCEPT !.phase = "done"]
            ELSE [t EXCEPT !.phase = "receive"]

TestReturn ==
    /\ test.phase \in {"send", "receive", "acknowledge"}
    /\ ReturnEffects(TestCaller)
    /\ test' = TestAfter(test, result[TestCaller])

NextTest ==
    \/ TestCall
    \/ TestAcquire
    \/ Step(TestCaller)
    \/ TestReturn

\* one caller running the test's script on a fresh mailbox
SpecTest == InitTest /\ [][NextTest]_vars

(* ------------------------------ claims --------------------------------- *)
\* the metadata of a mailbox as ensure_meta would load or create it
MetaOf(mailbox_id) ==
    IF meta_path(mailbox_id) \in DOMAIN meta
    THEN meta[meta_path(mailbox_id)]
    ELSE MetaDefault

\* ids of the items of a mailbox whose envelope is not marked read
UnreadIds(mailbox_id) ==
    {ParseU64(path[2]) : path \in
        {q \in DOMAIN env : /\ q[1] = mailbox_path(mailbox_id)
                            /\ env[q].kind = "envelope"
                            /\ ~env[q].read}}

\* what a receive on the mailbox would return in the current state
ReceiveNow(mailbox_id) == receive_result(MetaOf(mailbox_id), mailbox_id)

Inside == {"ensure_meta", "send_envelope", "send_meta", "receive_item",
           "ack_load", "ack_envelope", "ack_meta", "ret"}

Returning(p, kind) == pc[p] = "ret" /\ op[p].kind = kind

\* C1: on a fresh mailbox, after n sends a loop of receive + acknowledge of
\* the returned id ends (receive returns nothing) after exactly n
\* deliveries, which are the n items in the order they were sent.
C1_TestDeliversAll ==
    test.phase = "done" =>
        /\ test.count = test.n
        /\ test.got = [k \in 1..test.n |-> [id |-> FormatU64(k), item |-> test.items[k]]]

\* C2: receive returns nothing only when no envelope of the mailbox is
\* unread.
C2_NoneOnlyWhenNoUnread ==
    \A p \in Callers :
        (Returning(p, "receive") /\ result[p].kind = "None")
            => UnreadIds(op[p].mailbox_id) = {}

\* C3: the id receive returns is the smallest id of the mailbox whose
\* envelope is not marked read.
C3_ReceiveOldestUnread ==
    \A p \in Callers :
        (Returning(p, "receive") /\ result[p].kind = "Some")
            => /\ ParseU64(result[p].id) \in UnreadIds(op[p].mailbox_id)
               /\ \A k \in UnreadIds(op[p].mailbox_id) : ParseU64(result[p].id) <= k

\* C4: the k-th successful send on a mailbox returns k in decimal, whatever
\* receives and acknowledges run in between.
C4_SendIdsSequential ==
    \A d \in Dirs : \A k \in 1..Len(sent[d]) : sent[d][k] = FormatU64(k)

\* a second send returns while item 1 has already been acknowledged
C4_Witness ==
    \E p \in Callers :
        /\ Returning(p, "send")
        /\ result[p] = Res("Sent", FormatU64(2), <<>>)
        /\ MetaOf(op[p].mailbox_id).lowest_unread_id = 2

\* C5: a receive returns the same (id, item) as the receive before it on
\* that mailbox, as long as no acknowledge on the mailbox returned in
\* between (sends may).
C5_ReceiveIdempotent ==
    \A p \in Callers :
        (Returning(p, "receive") /\ lastRecv[mailbox_path(op[p].mailbox_id)] # NoResult)
            => result[p] = lastRecv[mailbox_path(op[p].mailbox_id)]

\* a receive repeats an earlier one after a further item was sent
C5_Witness ==
    \E p \in Callers :
        /\ Returning(p, "receive")
        /\ result[p].kind = "Some"
        /\ lastRecv[mailbox_path(op[p].mailbox_id)] = result[p]
        /\ MetaOf(op[p].mailbox_id).highest_used_id = MaxSends

InOrderAckDone(p) ==
    /\ pc[p] = "ack_meta"
    /\ pc'[p] = "ret"
    /\ result'[p].kind = "Ok"
    /\ ParseU64(op[p].item_id) = MetaOf(op[p].mailbox_id).lowest_unread_id

\* C6: a successful acknowledge of id = lowest_unread_id moves
\* lowest_unread_id up by exactly 1 and leaves highest_used_id alone, and
\* the next receive then returns id + 1, or nothing if no item is left
\* unacknowledged.
C6_InOrderAck ==
    [][\A p \in Callers : InOrderAckDone(p) =>
        LET m == op[p].mailbox_id
            id == ParseU64(op[p].item_id)
        IN  /\ MetaOf(m)'.lowest_unread_id = id + 1
            /\ MetaOf(m)'.highest_used_id = MetaOf(m).highest_used_id
            /\ \/ /\ ReceiveNow(m)'.kind = "Some"
                  /\ ReceiveNow(m)'.id = FormatU64(id + 1)
               \/ /\ ReceiveNow(m)'.kind = "None"
                  /\ UnreadIds(m)' = {}]_vars

\* the item the acknowledge names exists under exactly that id and is not
\* the one the pointer is at
OutOfOrderAck(p) ==
    LET path == item_path(op[p].mailbox_id, op[p].item_id)
    IN  /\ op[p].kind = "acknowledge"
        /\ pc[p] \in {"ack_load", "ack_envelope", "ack_meta"}
        /\ path \in DOMAIN env
        /\ env[path].kind = "envelope"
        /\ env[path].id = op[p].item_id
        /\ ParseU64(op[p].item_id) # MetaOf(op[p].mailbox_id).lowest_unread_id

\* C7: acknowledge of an existing item other than lowest_unread_id succeeds,
\* leaves both counters as they are and changes nothing but that envelope's
\* read flag, which it sets.
C7_OutOfOrderAck ==
    [][\A p \in Callers : (OutOfOrderAck(p) /\ pc'[p] # pc[p]) =>
        LET path == item_path(op[p].mailbox_id, op[p].item_id)
        IN  /\ meta' = meta
            /\ env' = env \/ env' = [env EXCEPT ![path].read = TRUE]
            /\ pc'[p] = "ack_meta" => env'[path].read
            /\ pc'[p] = "ret" => result'[p].kind = "Ok"]_vars

\* an acknowledge of an item above the pointer is about to return success
C7_Witness ==
    \E p \in Callers :
        /\ Returning(p, "acknowledge")
        /\ result[p].kind = "Ok"
        /\ ParseU64(op[p].item_id) > MetaOf(op[p].mailbox_id).lowest_unread_id
        /\ env[item_path(op[p].mailbox_id, op[p].item_id)].read

\* C8: at most one call is between acquiring the gate and returning, and
\* every call that is at a step touching metadata or envelopes holds it.
C8_MutualExclusion ==
    /\ Cardinality({p \in Callers : pc[p] \in Inside}) <= 1
    /\ \A p \in Callers : pc[p] \in Inside => sem[p]
    /\ permits + Cardinality({p \in Callers : sem[p]}) = LockPermits

\* one caller is writing while another waits for the gate
C8_Witness ==
    \E p, q \in Callers :
        /\ p # q
        /\ pc[p] \in {"send_meta", "ack_envelope"}
        /\ pc[q] = "acquire"

SendsReturning(d) ==
    Cardinality({p \in Callers :
        /\ Returning(p, "send")
        /\ result[p].kind = "Sent"
        /\ mailbox_path(op[p].mailbox_id) = d})

\* C9: the ids concurrent sends return on a mailbox are pairwise distinct
\* and fill 1..n without a gap, and highest_used_id is the number of sends
\* that succeeded on it.
C9_ConcurrentSends ==
    \A d \in Dirs :
        /\ \A i, j \in 1..Len(sent[d]) : i # j => sent[d][i] # sent[d][j]
        /\ {ParseU64(sent[d][i]) : i \in 1..Len(sent[d])} = 1..Len(sent[d])
        /\ UsedIds(d) = Len(sent[d]) + SendsReturning(d)

\* both mailboxes have been sent to, and a send returns while the other
\* caller waits for the gate
C9_Witness ==
    /\ \A d \in Dirs : Len(sent[d]) >= 1
    /\ \E p, q \in Callers :
         /\ p # q
         /\ Returning(p, "send")
         /\ result[p].kind = "Sent"
         /\ pc[q] = "acquire"

\* receive is about to load the item at lowest_unread_id and its file is
\* missing or is no envelope document
BrokenAtPointer(p) ==
    /\ pc[p] = "receive_item"
    /\ any_unread(lmeta[p])
    /\ ~EnvView(item_path(op[p].mailbox_id, lowest_unread_id(lmeta[p]))).ok

\* C10: if the item file at lowest_unread_id is missing or unreadable when
\* receive has an item to deliver, receive fails with BrokenMailbox for that
\* id -- it does not move on to a later item -- and no step of a receive
\* changes the metadata or an item file; so it fails the same way until
\* the file is back.
C10_BrokenMailbox ==
    [][\A p \in Callers :
        /\ (BrokenAtPointer(p) /\ pc'[p] # pc[p]) =>
              result'[p] = Res("BrokenMailbox", FormatU64(MetaOf(op[p].mailbox_id).lowest_unread_id), <<>>)
        /\ (op[p].kind = "receive" /\ pc[p] = "receive_item" /\ pc'[p] # pc[p]) =>
              (meta' = meta /\ env' = env)]_vars

\* a receive fails on a damaged file although a later item could be loaded
C10_Witness ==
    \E p \in Callers :
        /\ Returning(p, "receive")
        /\ result[p].kind = "BrokenMailbox"
        /\ damaged # NoFiles
        /\ EnvView(item_path(op[p].mailbox_id,
                FormatU64(MetaOf(op[p].mailbox_id).lowest_unread_id + 1))).ok

\* the item given to the send that returned id on the mailbox stored in d
SentAs(d, id) == {sentItems[d][k] : k \in {j \in 1..Len(sent[d]) : sent[d][j] = id}}

\* C11: whenever receive returns (id, item), item is the value that was
\* passed to the send that returned that id on that mailbox.
C11_PayloadIntegrity ==
    \A p \in Callers :
        (Returning(p, "receive") /\ result[p].kind = "Some")
            => SentAs(mailbox_path(op[p].mailbox_id), result[p].id) = {result[p].item}

\* a receive hands out the second item of a mailbox whose first two items
\* differ
C11_Witness ==
    \E p \in Callers :
        /\ Returning(p, "receive")
        /\ result[p].kind = "Some"
        /\ result[p].id = FormatU64(2)
        /\ LET d == mailbox_path(op[p].mailbox_id)
           IN  /\ Len(sentItems[d]) >= 2
               /\ sentItems[d][1] # sentItems[d][2]
               /\ result[p].item = sentItems[d][2]

\* C12: receive returns the item with id k only in states where an
\* acknowledge has returned success for every id 1..k-1 of that mailbox.
C12_InOrderDelivery ==
    \A p \in Callers :
        (Returning(p, "receive") /\ result[p].kind = "Some")
            => \A j \in 1..(ParseU64(result[p].id) - 1) :
                   j \in acked[mailbox_path(op[p].mailbox_id)]

\* a receive hands out item 2 after item 1 was acknowledged
C12_Witness ==
    \E p \in Callers :
        /\ Returning(p, "receive")
        /\ result[p].kind = "Some"
        /\ ParseU64(result[p].id) = 2
        /\ 1 \in acked[mailbox_path(op[p].mailbox_id)]

\* C13: the persisted metadata of every mailbox has
\* lowest_unread_id <= highest_used_id + 1, after any calls with any
\* item_id.
C13_PointerBound ==
    \A mailbox_id \in MailboxIds :
        MetaOf(mailbox_id).kind = "meta"
            => MetaOf(mailbox_id).lowest_unread_id
                   <= MetaOf(mailbox_id).highest_used_id + 1

\* C14: no send writes its envelope under an id that already names an
\* envelope written by an earlier send, also after a send that wrote its
\* envelope and then failed at the metadata write.
C14_NoIdReuse ==
    [][\A p \in Callers :
         (pc[p] = "send_envelope" /\ pc'[p] = "send_meta")
             => LET path == item_path(op[p].mailbox_id, next_id(lmeta[p]).id)
                IN  ~(path \in DOMAIN env /\ env[path].kind = "envelope")]_vars

Persisted ==
    [counters |-> [mailbox_id \in MailboxIds |->
                      [highest_used_id |-> MetaOf(mailbox_id).highest_used_id,
                       lowest_unread_id |-> MetaOf(mailbox_id).lowest_unread_id]],
     flags |-> [path \in DOMAIN env |-> env[path].read]]

\* C16: an acknowledge that fails with BrokenMailbox (the envelope cannot be
\* loaded) or with IdParseError leaves the persisted state as it was before
\* the call: the only steps such a call takes after acquiring the permit
\* are ensure_meta and the load-and-parse step, and neither changes a
\* counter or a read flag.
C16_FailedAckNoChange ==
    [][\A p \in Callers :
         /\ (op[p].kind = "acknowledge" /\ pc'[p] = "ret" /\ pc[p] # "ret"
                /\ result'[p].kind \in {"BrokenMailbox", "IdParseError"})
               => pc[p] = "ack_load"
         /\ (op[p].kind = "acknowledge" /\ pc[p] \in {"ensure_meta", "ack_load"}
                /\ pc'[p] # pc[p])
               => Persisted' = Persisted]_vars

\* an acknowledge of "1.x" returns IdParseError: the envelope it loaded is
\* item 1, which is still unread on disk
C16_Witness ==
    \E p \in Callers :
        /\ Returning(p, "acknowledge")
        /\ result[p].kind = "IdParseError"
        /\ LET path == item_path(op[p].mailbox_id, op[p].item_id)
           IN  /\ path \in DOMAIN env
               /\ ~env[path].read

\* the paths that hold a parsable envelope in f
Envelopes(f) == {path \in DOMAIN f : f[path].kind = "envelope"}

\* C17: once send has created an envelope no operation deletes it or
\* changes its id or payload; its read flag starts false, is changed only
\* by an acknowledge of that id and never goes from true back to false.
\* (Compared are the files that hold an envelope before and after a step;
\* a file that a failed write left unparsable is not compared.)
C17_EnvelopeLifecycle ==
    [][/\ \A path \in Envelopes(env) \cap Envelopes(env') :
             /\ env'[path].id = env[path].id
             /\ env'[path].data = env[path].data
             /\ env[path].read => env'[path].read
             /\ env'[path].read # env[path].read
                  => \E p \in Callers :
                        /\ op[p].kind = "acknowledge"
                        /\ pc[p] = "ack_envelope"
                        /\ item_path(op[p].mailbox_id, op[p].item_id) = path
       /\ \A path \in Envelopes(env) : path \in DOMAIN env'
       /\ \A path \in Envelopes(env') \ DOMAIN env : ~env'[path].read]_vars

\* C18: in every reachable state every envelope whose id is below the
\* lowest_unread_id of its mailbox is marked read, also after calls that
\* failed at a write.
C18_BelowPointerRead ==
    \A mailbox_id \in MailboxIds :
        MetaOf(mailbox_id).kind = "meta"
            => \A path \in Envelopes(env) :
                   (path[1] = mailbox_path(mailbox_id)
                        /\ ParseU64(env[path].id) < MetaOf(mailbox_id).lowest_unread_id)
                       => env[path].read

\* everything stored for one mailbox: its metadata file and its item files
Stored(mailbox_id) ==
    [meta |-> IF meta_path(mailbox_id) \in DOMAIN meta
              THEN meta[meta_path(mailbox_id)]
              ELSE [kind |-> "absent"],
     items |-> [path \in {q \in DOMAIN env : q[1] = mailbox_path(mailbox_id)}
                   |-> env[path]]]

\* C19: no step of a send, receive or acknowledge on one mailbox changes
\* the metadata or any envelope of another mailbox, whatever the
\* interleaving.
C19_MailboxIsolation ==
    [][\A p \in Callers :
         (pc[p] \in Inside /\ pc'[p] # pc[p])
             => \A other \in MailboxIds \ {op[p].mailbox_id} :
                    Stored(other)' = Stored(other)]_vars

\* a send on one mailbox has written both its files while the other
\* mailbox holds an item and its own counters
C19_Witness ==
    \E p \in Callers :
        /\ Returning(p, "send")
        /\ result[p].kind = "Sent"
        /\ \E other \in MailboxIds \ {op[p].mailbox_id} :
              /\ Stored(other).meta.kind = "meta"
              /\ Stored(other).meta.highest_used_id >= 1
              /\ DOMAIN Stored(other).items # {}

\* the callers that hold the permit
Holders == {p \in Callers : pc[p] \in Inside}

ErrorKinds == {"BrokenMailbox", "IdParseError", "MetaIoError",
               "EnvelopeIoError", "CodecError", "EncodingError"}

\* C20: every call that acquired the permit gives it back when it returns,
\* on success and on every error path: the permits handed out are exactly
\* those of the calls in progress, so the gate is free whenever no call is
\* in progress; and under fair scheduling every caller waiting for the
\* gate acquires it.
C20_GateReleased ==
    /\ [](permits + Cardinality(Holders) = LockPermits)
    /\ [](Holders = {} => permits = LockPermits)
    /\ \A p \in Callers : (pc[p] = "acquire") ~> (pc[p] = "ensure_meta")

\* a call is returning an error, still holding the permit, while the other
\* caller waits for the gate
C20_Witness ==
    \E p, q \in Callers :
        /\ pc[p] = "ret"
        /\ result[p].kind \in ErrorKinds
        /\ sem[p]
        /\ permits = 0
        /\ pc[q] = "acquire"

TypeOK ==
    /\ permits \in 0..LockPermits
    /\ \A p \in Callers : pc[p] \in {"idle", "acquire", "ensure_meta", "send_envelope",
            "send_meta", "receive_item", "ack_load", "ack_envelope", "ack_meta", "ret"}

====
